---- MODULE Spec2Model ----
(***************************************************************************)
(* pj4dev::ExpiringMap<K, V> (src/ExpiringMap.h): a map whose entries      *)
(* expire after a duration.  internal_map_ owns the items through          *)
(* shared_ptr; expired_queue_ is a std::priority_queue of weak_ptr ordered *)
(* by ItemCompare (a binary min-heap on the expiry time, kept in a vector  *)
(* by push_heap / pop_heap).                                               *)
(*                                                                         *)
(* An Item is identified by the address of its allocation (an ItemId).  A  *)
(* weak_ptr locks to its item while some shared_ptr owns the item, that is *)
(* while the item is a value of internal_map_; afterwards it locks to      *)
(* null, for ever.  ItemCompare dereferences the result of lock() without  *)
(* a test: applied to a null pointer this is undefined behaviour, modelled *)
(* as the choice between a crash and either result of the comparison.      *)
(*                                                                         *)
(* The program never compares addresses, so between two operations they    *)
(* are named canonically (settle): the item owned by the map slot of key k *)
(* has the address k, the item put() is inserting has the address Fresh,   *)
(* and a weak_ptr whose item was destroyed is written NULL.                *)
(*                                                                         *)
(* The class has the implicit copy constructor: a copy of the container    *)
(* (the parameter of verbose() in src/test/testExpMap.cpp) has its own map *)
(* and queue but shares the items.  copy_map_ is the map of such a copy,   *)
(* that is the items the copy co-owns; an item owned by the copy only,     *)
(* under key k, has the address CopyItem(k).  Specifications without the   *)
(* action copy keep copy_map_ empty.                                       *)
(*                                                                         *)
(* Every public operation is one atomic action; the clock is constant      *)
(* while an operation runs and advances between operations (Tick).  Only   *)
(* SpecLoop runs size() one iteration of the loop of clearExpired at a     *)
(* time.                                                                   *)
(***************************************************************************)
EXTENDS Integers, Sequences, FiniteSets

\* ---------------------------------------------------------------- bounds
NumKeys == 2
MaxValue == 1
MaxTTL == 1
MaxTime == 2
MaxQueue == 2
MaxLongQueue == 4

Keys == 1..NumKeys
Values == 1..MaxValue
TTLs == -1..MaxTTL
\* the address of the item made by the std::make_shared of put()
Fresh == NumKeys + 1
\* the address of the item that only the copy of the container owns, at key k
CopyItem(k) == Fresh + k
ItemIds == 1..(Fresh + NumKeys)

\* V{} for an arithmetic V
DefaultValue == 0
\* the null pointer: map.find(key) == end(), weak_ptr::lock() of an expired pointer
NULL == 0
\* the contents of a destroyed (or never allocated) item
NoItem == [key |-> 0, value |-> 0, expire |-> 0]

VARIABLES
    internal_map_,    \* key -> ItemId of the shared_ptr<Item> stored, or NULL
    expired_queue_,   \* the heap vector of the priority_queue: Seq(ItemId)
    items,            \* ItemId -> the Item object at that address, or NoItem
    clock,            \* milliseconds returned by current_time()
    crashed,          \* the process died on a null dereference
    last,             \* the last step: operation, arguments, result
    put_log,          \* key -> what the caller last put there and has not removed
    copy_map_         \* internal_map_ of the copy of the container: key -> ItemId or NULL

vars == <<internal_map_, expired_queue_, items, clock, crashed, last, put_log, copy_map_>>

current_time == clock

Item(k, v, exp) == [key |-> k, value |-> v, expire |-> exp]

\* ------------------------------------------------- shared_ptr / weak_ptr
\* number of shared_ptr owners of item w: those held by the map m and
\* those held by the map of the copy
use_count(m, w) ==
    Cardinality({k \in Keys : m[k] = w}) + Cardinality({k \in Keys : copy_map_[k] = w})

\* weak_ptr<Item>::lock(): the item while it is owned, null afterwards
lock(m, w) == IF use_count(m, w) > 0 THEN w ELSE NULL

\* the last shared_ptr going away destroys the item
release(m, it) == [w \in ItemIds |-> IF use_count(m, w) > 0 THEN it[w] ELSE NoItem]

\* outcomes of dereferencing a null shared_ptr
NullDeref == {"true", "false", "crash"}

\* ItemCompare::operator(): lhs.lock()->getExpire() > rhs.lock()->getExpire()
ItemCompare(m, it, lhs, rhs) ==
    IF lock(m, lhs) # NULL /\ lock(m, rhs) # NULL
    THEN {IF it[lhs].expire > it[rhs].expire THEN "true" ELSE "false"}
    ELSE NullDeref

\* does a comparison of lhs and rhs dereference a null pointer
derefs_null(m, lhs, rhs) == lock(m, lhs) = NULL \/ lock(m, rhs) = NULL

\* ---------------------------------------- std::push_heap / std::pop_heap
\* A heap outcome: the vector c, whether the process crashed, and whether
\* a null pointer was dereferenced on the way.
HeapOutcome(c, cr, ub) == [c |-> c, crash |-> cr, ub |-> ub]

\* __push_heap: sift value up from the hole (0-based index) to the root
RECURSIVE push_heap(_, _, _, _, _, _)
push_heap(m, it, c, holeIndex, value, ub) ==
    IF holeIndex > 0
    THEN LET parent == (holeIndex - 1) \div 2
             ub2 == ub \/ derefs_null(m, c[parent + 1], value)
         IN  UNION { IF o = "crash"
                     THEN {HeapOutcome(c, TRUE, ub2)}
                     ELSE IF o = "true"
                     THEN push_heap(m, it, [c EXCEPT ![holeIndex + 1] = c[parent + 1]],
                                    parent, value, ub2)
                     ELSE {HeapOutcome([c EXCEPT ![holeIndex + 1] = value], FALSE, ub2)}
                   : o \in ItemCompare(m, it, c[parent + 1], value) }
    ELSE {HeapOutcome([c EXCEPT ![holeIndex + 1] = value], FALSE, ub)}

\* priority_queue::push: c.push_back(x); push_heap(c.begin(), c.end(), comp)
queue_push(m, it, c, x) == push_heap(m, it, Append(c, x), Len(c), x, FALSE)

\* __adjust_heap: move the hole at the root down along the smaller child
\* over the first len elements, then sift value up from where it stopped
RECURSIVE adjust_heap(_, _, _, _, _, _, _)
adjust_heap(m, it, c, holeIndex, len, value, ub) ==
    IF holeIndex < (len - 1) \div 2
    THEN LET right == 2 * (holeIndex + 1)
             ub2 == ub \/ derefs_null(m, c[right + 1], c[right])
         IN  UNION { IF o = "crash"
                     THEN {HeapOutcome(c, TRUE, ub2)}
                     ELSE LET child == IF o = "true" THEN right - 1 ELSE right
                          IN  adjust_heap(m, it, [c EXCEPT ![holeIndex + 1] = c[child + 1]],
                                          child, len, value, ub2)
                   : o \in ItemCompare(m, it, c[right + 1], c[right]) }
    ELSE IF len % 2 = 0 /\ holeIndex = (len - 2) \div 2
    THEN LET child == 2 * (holeIndex + 1) - 1
         IN  push_heap(m, it, [c EXCEPT ![holeIndex + 1] = c[child + 1]], child, value, ub)
    ELSE push_heap(m, it, c, holeIndex, value, ub)

\* priority_queue::pop: pop_heap(c.begin(), c.end(), comp); c.pop_back()
queue_pop(m, it, c) ==
    IF Len(c) > 1
    THEN LET len == Len(c) - 1
             value == c[Len(c)]
             moved == [c EXCEPT ![Len(c)] = c[1]]
         IN  { HeapOutcome(IF o.crash THEN o.c ELSE SubSeq(o.c, 1, len), o.crash, o.ub)
               : o \in adjust_heap(m, it, moved, 0, len, value, FALSE) }
    ELSE {HeapOutcome(<<>>, FALSE, FALSE)}

\* ------------------------------------------------------------ container
\* A container outcome: the map, the queue, the items and the two flags.
Outcome(m, q, it, cr, ub) == [m |-> m, q |-> q, it |-> it, crash |-> cr, ub |-> ub]

\* ExpiringMap::clearExpired at time t
RECURSIVE clearExpired(_, _, _, _, _)
clearExpired(m, q, it, t, ub) ==
    IF q = <<>>
    THEN {Outcome(m, q, it, FALSE, ub)}
    ELSE LET top == lock(m, q[1])
         IN  IF top # NULL /\ it[top].expire > t
             THEN {Outcome(m, q, it, FALSE, ub)}
             ELSE LET m2 == IF top # NULL THEN [m EXCEPT ![it[top].key] = NULL] ELSE m
                      it2 == release(m2, it)
                  IN  UNION { IF o.crash
                              THEN {Outcome(m2, o.c, it2, TRUE, ub \/ o.ub)}
                              ELSE clearExpired(m2, o.c, it2, t, ub \/ o.ub)
                            : o \in queue_pop(m2, it2, q) }

\* the record kept in last: ub tells whether the call dereferenced a null
\* pointer, ret is what it returned (for erase, what the map's erase returned)
Call(op, k, v, ms, ub, ret) ==
    [op |-> op, key |-> k, value |-> v, ms |-> ms, ub |-> ub, ret |-> ret]

\* put_log: the value of the latest put of the key and the instant
\* current_time() + ms of that put, as long as the key was not erased or
\* cleared since and the clock has not reached that instant; else NoPut
NoPut == [value |-> 0, until |-> 0, state |-> "none"]
Logged(v, until, t) ==
    IF t >= until THEN NoPut ELSE [value |-> v, until |-> until, state |-> "put"]

\* outcomes of ExpiringMap::put
put_outcomes(key, value, ms) ==
    LET expired_time == current_time + ms
        item == Fresh
        m1 == [internal_map_ EXCEPT ![key] = item]
        it1 == release(m1, [items EXCEPT ![item] = Item(key, value, expired_time)])
    IN  UNION { IF o.crash
                THEN {Outcome(m1, o.c, it1, TRUE, o.ub)}
                ELSE clearExpired(m1, o.c, it1, current_time, o.ub)
              : o \in queue_push(m1, it1, expired_queue_, item) }

\* the key whose map slot owns the item w
owner(m, w) == CHOOSE k \in Keys : m[k] = w

\* does the copy alone own an item under key k, once the map is m
copy_only(m, k) == copy_map_[k] # NULL /\ copy_map_[k] # m[k]

\* the canonical address of the item w once the map is m
address(m, w) ==
    IF w = NULL THEN NULL
    ELSE IF \E k \in Keys : m[k] = w THEN owner(m, w)
    ELSE IF \E k \in Keys : copy_map_[k] = w THEN CopyItem(owner(copy_map_, w))
    ELSE NULL

\* canonical addresses once an operation has returned
settle(o) ==
    [m  |-> [k \in Keys |-> IF o.m[k] # NULL THEN k ELSE NULL],
     cm |-> [k \in Keys |-> IF copy_map_[k] = NULL THEN NULL
                            ELSE IF copy_only(o.m, k) THEN CopyItem(k) ELSE k],
     q  |-> [i \in 1..Len(o.q) |-> address(o.m, o.q[i])],
     it |-> [w \in ItemIds |->
               IF w \in Keys /\ o.m[w] # NULL THEN o.it[o.m[w]]
               ELSE IF w > Fresh /\ copy_only(o.m, w - Fresh) THEN o.it[copy_map_[w - Fresh]]
               ELSE NoItem],
     crash |-> o.crash,
     ub |-> o.ub]

\* the container after an outcome o of an operation; a crash ends the
\* process, and the container is left as it was at the call
Becomes(o) ==
    /\ crashed' = o.crash
    /\ IF o.crash
       THEN UNCHANGED <<internal_map_, expired_queue_, items, copy_map_>>
       ELSE LET s == settle(o)
            IN  /\ internal_map_' = s.m
                /\ expired_queue_' = s.q
                /\ items' = s.it
                /\ copy_map_' = s.cm

put(key, value, ms) ==
    /\ ~crashed
    /\ \E o \in put_outcomes(key, value, ms) :
          /\ Becomes(o)
          /\ last' = Call("put", key, value, ms, o.ub, "void")
          /\ put_log' = IF o.crash THEN put_log
                        ELSE [put_log EXCEPT ![key] = Logged(value, clock + ms, clock)]
    /\ UNCHANGED clock

\* get with the expiry compared by >= instead of >
get_result_inclusive(key) ==
    LET res == internal_map_[key]
    IN  IF res # NULL /\ items[res].expire >= current_time
        THEN items[res].value
        ELSE DefaultValue

\* ExpiringMap::get: the value found at key if it has not expired, else V{}
get_result(key) ==
    LET res == internal_map_[key]
    IN  IF res # NULL /\ items[res].expire > current_time
        THEN items[res].value
        ELSE DefaultValue

get(key) ==
    /\ ~crashed
    /\ last' = Call("get", key, 0, 0, FALSE, get_result(key))
    /\ UNCHANGED <<internal_map_, expired_queue_, items, clock, crashed, put_log, copy_map_>>

\* the comparator without its tie-break on the key
keys_compare_expire_only(a, b) ==
    items[internal_map_[a]].expire < items[internal_map_[b]].expire

\* the comparator of the std::sort in keys(): by expiry time, then by key
keys_compare(a, b) ==
    IF items[internal_map_[a]].expire # items[internal_map_[b]].expire
    THEN items[internal_map_[a]].expire < items[internal_map_[b]].expire
    ELSE a < b

\* std::sort: x is put before the first element of the sorted s that it precedes
RECURSIVE sort_insert(_, _)
sort_insert(s, x) ==
    IF s = <<>> THEN <<x>>
    ELSE IF keys_compare(x, Head(s)) THEN <<x>> \o s
    ELSE <<Head(s)>> \o sort_insert(Tail(s), x)

\* the for_each without the test of the expiry time
RECURSIVE keys_collect_all(_, _)
keys_collect_all(k, curtime) ==
    IF k > NumKeys THEN <<>>
    ELSE (IF internal_map_[k] # NULL THEN <<k>> ELSE <<>>) \o keys_collect_all(k + 1, curtime)

\* the for_each of keys() over the map in key order, from key k on:
\* push_back of every key that has not expired at curtime
RECURSIVE keys_collect(_, _)
keys_collect(k, curtime) ==
    IF k > NumKeys THEN <<>>
    ELSE (IF internal_map_[k] # NULL /\ items[internal_map_[k]].expire > curtime
          THEN <<k>> ELSE <<>>) \o keys_collect(k + 1, curtime)

RECURSIVE sort(_)
sort(s) == IF s = <<>> THEN <<>> ELSE sort_insert(sort(Tail(s)), Head(s))

\* ExpiringMap::keys
keys_result == sort(keys_collect(1, current_time))

\* a map entry that holds an empty shared_ptr
NullEntry == -1

\* unordered_map::operator[] (internal_map_ is mutable): the map after
\* internal_map_[k], which inserts an empty entry when k has none
index(m, k) == IF m[k] = NULL THEN [m EXCEPT ![k] = NullEntry] ELSE m

\* the map after the comparator of std::sort has indexed every key of s
RECURSIVE keys_touch(_, _)
keys_touch(m, s) == IF s = <<>> THEN m ELSE keys_touch(index(m, Head(s)), Tail(s))

\* a comparator that indexes the map with every key, collected or not
keys_map_all == keys_touch(internal_map_, [k \in Keys |-> k])

\* the map after keys(): std::sort compares, and so indexes, the collected
\* keys when there are at least two of them
keys_map ==
    IF Len(keys_collect(1, current_time)) >= 2
    THEN keys_touch(internal_map_, keys_collect(1, current_time))
    ELSE internal_map_

keys ==
    /\ ~crashed
    /\ internal_map_' = keys_map
    /\ last' = Call("keys", 0, 0, 0, FALSE, keys_result)
    /\ UNCHANGED <<expired_queue_, items, clock, crashed, put_log, copy_map_>>

\* conversion of a long to unsigned int (32 bits), as two 16-bit halves
Half == 65536
to_unsigned(d) == [hi |-> (d \div Half) % Half, lo |-> d % Half]

\* ExpiringMap::left: expired_time is an unsigned int, 0U unless key is found
left_result(key) ==
    LET res == internal_map_[key]
    IN  IF res # NULL
        THEN to_unsigned(items[res].expire - current_time)
        ELSE to_unsigned(0)

left(key) ==
    /\ ~crashed
    /\ last' = Call("left", key, 0, 0, FALSE, left_result(key))
    /\ UNCHANGED <<internal_map_, expired_queue_, items, clock, crashed, put_log, copy_map_>>

\* erase emptying the map instead of removing one key
erase_map_all(key) == [k \in Keys |-> NULL]

\* ExpiringMap::erase: the map after internal_map_.erase(key)
erase_map(key) == [internal_map_ EXCEPT ![key] = NULL]

\* the number of elements internal_map_.erase(key) removes (erase() drops it)
erase_count(key) == IF internal_map_[key] # NULL THEN 1 ELSE 0

erase(key) ==
    /\ ~crashed
    /\ Becomes(Outcome(erase_map(key), expired_queue_,
                       release(erase_map(key), items), FALSE, FALSE))
    /\ last' = Call("erase", key, 0, 0, FALSE, erase_count(key))
    /\ put_log' = [put_log EXCEPT ![key] = NoPut]
    /\ UNCHANGED clock

\* the loop of clear(): pop until the queue is empty
RECURSIVE clear_queue(_, _, _, _)
clear_queue(m, q, it, ub) ==
    IF q = <<>>
    THEN {Outcome(m, q, it, FALSE, ub)}
    ELSE UNION { IF o.crash
                 THEN {Outcome(m, o.c, it, TRUE, ub \/ o.ub)}
                 ELSE clear_queue(m, o.c, it, ub \/ o.ub)
               : o \in queue_pop(m, it, q) }

\* clear without its internal_map_.clear()
clear_outcomes_queue_only == clear_queue(internal_map_, expired_queue_, items, FALSE)

\* outcomes of ExpiringMap::clear: empty the queue, then internal_map_.clear()
clear_outcomes ==
    { IF o.crash THEN o
      ELSE Outcome([k \in Keys |-> NULL], o.q, release([k \in Keys |-> NULL], o.it),
                   FALSE, o.ub)
      : o \in clear_queue(internal_map_, expired_queue_, items, FALSE) }

clear ==
    /\ ~crashed
    /\ \E o \in clear_outcomes :
          /\ Becomes(o)
          /\ last' = Call("clear", 0, 0, 0, o.ub, "void")
          /\ put_log' = IF o.crash THEN put_log ELSE [k \in Keys |-> NoPut]
    /\ UNCHANGED clock

\* internal_map_.size()
map_size(m) == Cardinality({k \in Keys : m[k] # NULL})

\* outcomes of ExpiringMap::size: clearExpired(), then internal_map_.size()
size_outcomes == clearExpired(internal_map_, expired_queue_, items, current_time, FALSE)

size ==
    /\ ~crashed
    /\ \E o \in size_outcomes :
          /\ Becomes(o)
          /\ last' = Call("size", 0, 0, 0, o.ub,
                          IF o.crash THEN "void" ELSE map_size(o.m))
    /\ UNCHANGED <<clock, put_log>>

Tick ==
    /\ ~crashed
    /\ clock < MaxTime
    /\ clock' = clock + 1
    /\ last' = Call("tick", 0, 0, 0, FALSE, "void")
    /\ put_log' = [k \in Keys |-> IF put_log[k].state = "put"
                                   THEN Logged(put_log[k].value, put_log[k].until, clock + 1)
                                   ELSE put_log[k]]
    /\ UNCHANGED <<internal_map_, expired_queue_, items, crashed, copy_map_>>

Init ==
    /\ internal_map_ = [k \in Keys |-> NULL]
    /\ expired_queue_ = <<>>
    /\ items = [w \in ItemIds |-> NoItem]
    /\ clock = 0
    /\ crashed = FALSE
    /\ last = [op |-> "new", key |-> 0, value |-> 0, ms |-> 0, ub |-> FALSE, ret |-> "void"]
    /\ put_log = [k \in Keys |-> NoPut]
    /\ copy_map_ = [k \in Keys |-> NULL]

\* the queue holds fewer than n references: room for one more put
Room(n) == Len(expired_queue_) < n

Next ==
    \/ \E k \in Keys, v \in Values, ms \in TTLs : Room(MaxQueue) /\ put(k, v, ms)
    \/ \E k \in Keys : get(k)
    \/ keys
    \/ \E k \in Keys : left(k)
    \/ \E k \in Keys : erase(k)
    \/ clear
    \/ size
    \/ Tick

Spec == Init /\ [][Next]_vars

\* the same container with room for a longer queue
NextLong ==
    \/ \E k \in Keys, v \in Values, ms \in TTLs : Room(MaxLongQueue) /\ put(k, v, ms)
    \/ \E k \in Keys : get(k)
    \/ keys
    \/ \E k \in Keys : left(k)
    \/ \E k \in Keys : erase(k)
    \/ clear
    \/ size
    \/ Tick

SpecLong == Init /\ [][NextLong]_vars

\* the implicit copy constructor, as run for the by-value parameter of
\* verbose(): the copy's map holds shared_ptr to the same items
copy ==
    /\ ~crashed
    /\ copy_map_ = [k \in Keys |-> NULL]
    /\ copy_map_' = internal_map_
    /\ last' = Call("copy", 0, 0, 0, FALSE, "void")
    /\ UNCHANGED <<internal_map_, expired_queue_, items, clock, crashed, put_log>>

\* the implicit destructor of the copy: its shared_ptr go away, and the
\* items it alone owned are destroyed
destroy ==
    /\ ~crashed
    /\ copy_map_ # [k \in Keys |-> NULL]
    /\ copy_map_' = [k \in Keys |-> NULL]
    /\ items' = [w \in ItemIds |-> IF w \in Keys THEN items[w] ELSE NoItem]
    /\ expired_queue_' = [i \in 1..Len(expired_queue_) |->
                            IF expired_queue_[i] \in Keys THEN expired_queue_[i] ELSE NULL]
    /\ last' = Call("destroy", 0, 0, 0, FALSE, "void")
    /\ UNCHANGED <<internal_map_, clock, crashed, put_log>>

\* the container used while a copy of it may exist
NextCopy ==
    \/ \E k \in Keys, v \in Values, ms \in TTLs : Room(MaxQueue) /\ put(k, v, ms)
    \/ \E k \in Keys : get(k)
    \/ keys
    \/ \E k \in Keys : left(k)
    \/ \E k \in Keys : erase(k)
    \/ clear
    \/ size
    \/ Tick
    \/ copy
    \/ destroy

SpecCopy == Init /\ [][NextCopy]_vars

\* ------------------------------------------- the loop of clearExpired
\* one iteration of the while loop of clearExpired at time t: its outcomes,
\* each with whether the loop goes on to another test of its condition
clearExpired_iteration_pop_inside(m, q, it, t) ==
    IF q = <<>>
    THEN {[o |-> Outcome(m, q, it, FALSE, FALSE), again |-> FALSE]}
    ELSE LET top == lock(m, q[1])
         IN  IF top # NULL /\ it[top].expire > t
             THEN {[o |-> Outcome(m, q, it, FALSE, FALSE), again |-> FALSE]}
             ELSE IF top = NULL
             THEN {[o |-> Outcome(m, q, it, FALSE, FALSE), again |-> TRUE]}
             ELSE LET m2 == [m EXCEPT ![it[top].key] = NULL]
                      it2 == release(m2, it)
                  IN  { [o |-> Outcome(m2, p.c, it2, p.crash, p.ub), again |-> ~p.crash]
                        : p \in queue_pop(m2, it2, q) }

clearExpired_iteration(m, q, it, t) ==
    IF q = <<>>
    THEN {[o |-> Outcome(m, q, it, FALSE, FALSE), again |-> FALSE]}
    ELSE LET top == lock(m, q[1])
         IN  IF top # NULL /\ it[top].expire > t
             THEN {[o |-> Outcome(m, q, it, FALSE, FALSE), again |-> FALSE]}
             ELSE LET m2 == IF top # NULL THEN [m EXCEPT ![it[top].key] = NULL] ELSE m
                      it2 == release(m2, it)
                  IN  { [o |-> Outcome(m2, p.c, it2, p.crash, p.ub), again |-> ~p.crash]
                        : p \in queue_pop(m2, it2, q) }

\* the record kept in last while size() is inside the loop: n references
\* were in the queue at the call, pops of them have been popped since
Loop(n, pops, ub) ==
    [op |-> "clearExpired", key |-> 0, value |-> 0, ms |-> 0, ub |-> ub,
     ret |-> "void", n |-> n, pops |-> pops]

InLoop == last.op = "clearExpired"

\* size() is called and enters clearExpired
size_call ==
    /\ ~crashed
    /\ ~InLoop
    /\ last' = Loop(Len(expired_queue_), 0, FALSE)
    /\ UNCHANGED <<internal_map_, expired_queue_, items, clock, crashed, put_log, copy_map_>>

\* one iteration of the loop; when the loop ends size() returns
\* internal_map_.size()
size_loop ==
    /\ ~crashed
    /\ InLoop
    /\ \E r \in clearExpired_iteration(internal_map_, expired_queue_, items, current_time) :
          /\ Becomes(r.o)
          /\ last' = IF r.again
                     THEN Loop(last.n, last.pops + 1, last.ub \/ r.o.ub)
                     ELSE Call("size", 0, 0, 0, last.ub \/ r.o.ub,
                               IF r.o.crash THEN "void" ELSE map_size(r.o.m))
    /\ UNCHANGED <<clock, put_log>>

\* the container with size() run one iteration of its loop at a time; the
\* caller makes no other call, and the clock stands, until size() returns
NextLoop ==
    \/ \E k \in Keys, v \in Values, ms \in TTLs :
          ~InLoop /\ Room(MaxQueue) /\ put(k, v, ms)
    \/ \E k \in Keys : ~InLoop /\ erase(k)
    \/ ~InLoop /\ clear
    \/ ~InLoop /\ Tick
    \/ size_call
    \/ size_loop

\* the thread that is inside the loop goes on running
SpecLoop == Init /\ [][NextLoop]_vars /\ WF_vars(size_loop)

\* ---------------------------------------------------------------- claims
Range(s) == {s[i] : i \in 1..Len(s)}

\* the store holds an entry for k / one that has not expired
present(k) == internal_map_[k] # NULL
live(k) == present(k) /\ items[internal_map_[k]].expire > clock

\* C1: put(k, v, ttl) with ttl > 0 followed immediately by get(k) returns
\* v, in every state of the container (also with stale references in the
\* queue): the put returns and get(k) is v.
C1_PutThenGet ==
    (last.op = "put" /\ last.ms > 0) =>
        (~crashed /\ get_result(last.key) = last.value)

\* C2: get(k) returns the stored value exactly when the store holds an
\* entry for k with expire_at > now, and the default value otherwise; an
\* entry that has expired and is still in the store reads as an absent key.
C2_GetLiveOrDefault ==
    last.op = "get" =>
        /\ live(last.key) => last.ret = items[internal_map_[last.key]].value
        /\ ~live(last.key) => last.ret = DefaultValue

\* get was called on a key whose entry is in the store and expires at this
\* very instant, and returned the default value
C2_Witness ==
    /\ last.op = "get"
    /\ present(last.key)
    /\ items[internal_map_[last.key]].expire = clock
    /\ last.ret = DefaultValue

\* C3: once the ttl of the latest put of k has elapsed (and when k was
\* never put, or erased or cleared since), get(k) returns the default value
\* and k is not in keys(), whether a reconciliation has run or not: a
\* value read for k, or k listed by keys(), is backed by a put of that
\* value whose ttl has not elapsed.
C3_GoneAfterTtl ==
    ~crashed =>
        \A k \in Keys :
            (get_result(k) # DefaultValue \/ k \in Range(keys_result)) =>
                /\ put_log[k].state = "put"
                /\ clock < put_log[k].until
                /\ get_result(k) = put_log[k].value

\* keys() was called while an entry whose expiry time has passed is still
\* in the store, and did not list it
C3_Witness ==
    /\ last.op = "keys"
    /\ \E k \in Keys :
          /\ present(k)
          /\ items[internal_map_[k]].expire < clock
          /\ put_log[k] = NoPut
          /\ k \notin Range(last.ret)
          /\ get_result(k) = DefaultValue

\* C4: after put(k, v1, t1); put(k, v2, t2), both unexpired, the store
\* holds one entry for k, with value v2 and expire_at the time of the
\* second put plus t2; get(k) is v2, keys() has k once, size() counts it.
C4_Overwrite ==
    [][ \A k \in Keys, v \in Values, ms \in TTLs :
        ( /\ ~crashed
          /\ last.op = "put" /\ last.ms > 0 /\ last.key = k
          /\ last'.op = "put" /\ ms > 0
          /\ last'.key = k /\ last'.value = v /\ last'.ms = ms )
        => ( /\ ~crashed'
             /\ present(k)'
             /\ items'[internal_map_'[k]] = Item(k, v, clock + ms)
             /\ get_result(k)' = v
             /\ Cardinality({i \in 1..Len(keys_result') : keys_result'[i] = k}) = 1
             /\ \A o \in size_outcomes' : ~o.crash /\ o.m[k] # NULL ) ]_vars

\* C5: in every reachable state size() returns, and the value it returns
\* equals the number of keys keys() returns at the same instant: no entry
\* of the store has expire_at <= now then.
C5_SizeEqualsKeys ==
    last.op = "size" =>
        /\ ~crashed
        /\ last.ret = Len(keys_result)
        /\ \A k \in Keys : present(k) => live(k)

\* C6: a stale reference of the queue is never dereferenced, in no
\* operation, and no operation crashes.
C6_NoStaleDereference == ~crashed /\ ~last.ub

\* C7: erase(k) of an absent key changes no result of get, keys and size;
\* erase(k) of a present key makes get(k) the default value and takes k
\* out of keys() at once, and leaves the entry of every other key as it is.
C7_Erase ==
    [][ \A k \in Keys :
        (~crashed /\ last'.op = "erase" /\ last'.key = k) =>
            /\ ~crashed'
            /\ ~present(k) =>
                  /\ \A j \in Keys : get_result(j)' = get_result(j)
                  /\ keys_result' = keys_result
                  /\ \/ UNCHANGED <<internal_map_, expired_queue_, items, clock, copy_map_>>
                     \/ size_outcomes' = size_outcomes
            /\ present(k) =>
                  /\ get_result(k)' = DefaultValue
                  /\ k \notin Range(keys_result')
                  /\ \A j \in Keys \ {k} :
                        /\ internal_map_'[j] = internal_map_[j]
                        /\ items'[j] = items[j] ]_vars

\* erase removed the entry of a key and the live entry of another key is
\* still in the store
C7_Witness ==
    /\ last.op = "erase"
    /\ last.ret = 1
    /\ ~present(last.key)
    /\ \E j \in Keys \ {last.key} : live(j)

\* C8: clear() leaves the store and the queue empty in every state of the
\* container, so that size() is 0 and keys() is empty right after it.
C8_Clear ==
    last.op = "clear" =>
        /\ ~crashed
        /\ expired_queue_ = <<>>
        /\ \A k \in Keys : ~present(k)
        /\ keys_result = <<>>
        /\ \A o \in size_outcomes : ~o.crash /\ map_size(o.m) = 0

C10_LeftZero ==
    (last.op = "left" /\ ~live(last.key)) => last.ret = to_unsigned(0)

\* the long that left() returns, the unsigned int u widened to long, is d
returns_long(u, d) == d >= 0 /\ d \div Half < Half /\ u.hi = d \div Half /\ u.lo = d % Half

\* C11: for a key whose entry is in the store, left(k) returns exactly the
\* signed difference expire_at - now (positive while the entry is live,
\* non-positive once it has expired), unaltered by the unsigned 32-bit
\* intermediate variable.
C11_LeftSigned ==
    (last.op = "left" /\ present(last.key)) =>
        returns_long(last.ret, items[internal_map_[last.key]].expire - clock)

\* C12: put(k, v, ttl) with ttl < 0 returns and leaves an entry that has
\* already expired: right after it get(k) is the default value, k is not
\* in keys() and size() does not count k, also when k had a live entry.
C12_NegativeTtl ==
    (last.op = "put" /\ last.ms < 0) =>
        /\ ~crashed
        /\ get_result(last.key) = DefaultValue
        /\ last.key \notin Range(keys_result)
        /\ \A o \in size_outcomes : ~o.crash /\ o.m[last.key] = NULL

\* C14: whenever the reference on top of the queue resolves to an entry of
\* the store, no entry of the store expires earlier than that entry (so
\* stopping at the first live, unexpired top leaves no expired entry).
C14_TopIsEarliest ==
    (expired_queue_ /= <<>> /\ lock(internal_map_, expired_queue_[1]) /= NULL) =>
        \A k \in Keys : present(k) =>
            items[internal_map_[k]].expire >= items[expired_queue_[1]].expire

\* C16: size() is read-only for the caller: get(k), left(k) and keys()
\* return the same results at the same instant whether or not size() was
\* called just before.
C16_SizeReadOnly ==
    [][last'.op = "size" =>
        /\ ~crashed'
        /\ keys_result' = keys_result
        /\ \A k \in Keys : /\ get_result(k)' = get_result(k)
                           /\ left_result(k)' = left_result(k)]_vars

\* C13: reconciliation never removes an entry that has not expired: what
\* was put under k, and not erased or cleared since, stays in the store
\* with its value until its expiry time, whatever put() and size() were
\* run in between (also after an earlier entry of k was overwritten).
C13_NoEarlyEviction ==
    ~crashed =>
        \A k \in Keys : put_log[k].state = "put" =>
            /\ present(k)
            /\ items[internal_map_[k]].value = put_log[k].value
            /\ items[internal_map_[k]].expire = put_log[k].until

\* C15: the store is the only owner of an entry: a reference of the queue
\* that still resolves points to an entry of the store, so the references
\* to an entry removed by overwrite or erase are stale, also while a copy
\* of the container exists.
C15_StoreOnlyOwner ==
    \A i \in 1..Len(expired_queue_) :
        lock(internal_map_, expired_queue_[i]) # NULL =>
            \E k \in Keys : internal_map_[k] = expired_queue_[i]

\* C17: every entry of the store is the target of a reference of the
\* queue, so the queue never holds fewer references than the store has
\* entries: reconciliation can reach every entry.
C17_EntriesReachable ==
    /\ \A k \in Keys : present(k) => internal_map_[k] \in Range(expired_queue_)
    /\ Len(expired_queue_) >= map_size(internal_map_)

C17_Witness ==
    /\ last.op \in {"put", "erase", "size"}
    /\ NULL \in Range(expired_queue_)
    /\ \E k \in Keys : present(k)

\* C18: get(k), left(k) and keys() leave the store and the queue as they
\* were: nothing is evicted, popped or inserted, for present, absent and
\* expired keys (also by the operator[] of the comparator of keys()).
C18_ReadersFrame ==
    [][last'.op \in {"get", "left", "keys"} =>
        /\ internal_map_' = internal_map_
        /\ expired_queue_' = expired_queue_
        /\ items' = items]_vars

C18_Witness ==
    /\ last.op = "keys"
    /\ Len(last.ret) >= 2
    /\ expired_queue_ # <<>>

\* C19: erase(k) leaves the queue as it was (the same references, the same
\* count) and changes the store only by removing the entry of k: the
\* reference to the erased entry stays in the queue, stale.
C19_EraseFrame ==
    [][\A k \in Keys : (last'.op = "erase" /\ last'.key = k) =>
        /\ internal_map_' = [internal_map_ EXCEPT ![k] = NULL]
        /\ Len(expired_queue_') = Len(expired_queue_)
        /\ \A i \in 1..Len(expired_queue_) :
              expired_queue_'[i] = IF expired_queue_[i] = internal_map_[k]
                                   THEN NULL ELSE expired_queue_[i]
        /\ \A j \in Keys \ {k} : items'[j] = items[j]]_vars

\* C20: every run of the loop of clearExpired terminates: while it runs,
\* the references popped and those left in the queue add up to the n
\* references it started from (at most n pops), and the loop ends.
C20_LoopTerminates ==
    /\ [](InLoop => (last.pops + Len(expired_queue_) = last.n /\ last.pops <= last.n))
    /\ (InLoop ~> ~InLoop)

C20_Witness ==
    /\ InLoop
    /\ last.pops >= 2
    /\ expired_queue_ = <<>>

====
